---- MODULE Spec2Model ----
(***************************************************************************)
(* Retention scan and reconciled deletion of the Automation component      *)
(* (src/components/Exclusions.tsx, lines 118-423) together with the        *)
(* exclusion list it shares with the Exclusions component (lines 11-104).  *)
(*                                                                         *)
(* Every async handler is cut at its awaits: one action runs the code from *)
(* the user's click (or from the return of the awaited call) up to the     *)
(* next await.  pc names the call the handler in flight is waiting for.    *)
(* The external services are stubs: what they return is fixed per          *)
(* behaviour (chosen in Init), whether a call returns or throws is chosen  *)
(* at every call.                                                          *)
(*                                                                         *)
(* Strings the code parses (Name, ProviderIds.Tmdb, ProviderIds.Tvdb) are  *)
(* sequences of one-character strings; an absent or empty string is << >>. *)
(* Ages and thresholds are counted in half days, so that a partial day is  *)
(* representable.  Log entries keep the translation key and the parameters *)
(* handed to t(); the wall-clock prefix of addLog is left out.             *)
(***************************************************************************)
EXTENDS Integers, Sequences, FiniteSets, TLC

\* ------------------------------------------------------------------ bounds
\* longest catalog the library service returns
MaxCatalog == 3
\* a scan or a deletion run is started only while the log is shorter than this
MaxLogLen == 4
\* while a handler is in flight the per-item exclude button adds a new id only
\* while the exclusion list is shorter than this
MaxExcluded == 1
\* handlers left in flight by views that were unmounted
MaxDetached == 1

\* --------------------------------------------------------------- constants
NoVal == -1
NaN == -2
NoItem == "-"
NULL == "null"
HalfDaysPerDay == 2
DefaultMovieRetentionDays == 7
DefaultTvSeasonRetentionDays == 28

\* ------------------------------------------------------- service fixtures
\* JellyfinItem records the library service can return (getItems).
Items ==
  [ m1 |-> [Id |-> "m1", Type |-> "Movie",  Name |-> <<"A">>,
            Tmdb |-> <<"1">>, SeriesId |-> NoItem, age |-> 15],
    s1 |-> [Id |-> "s1", Type |-> "Season", Name |-> <<"S", " ", "1">>,
            Tmdb |-> << >>, SeriesId |-> "A", age |-> 57],
    x1 |-> [Id |-> "x1", Type |-> "Series", Name |-> <<"X">>,
            Tmdb |-> << >>, SeriesId |-> NoItem, age |-> 100],
    m2 |-> [Id |-> "m2", Type |-> "Movie",  Name |-> <<"B">>,
            Tmdb |-> << >>, SeriesId |-> NoItem, age |-> 20],
    s2 |-> [Id |-> "s2", Type |-> "Season", Name |-> <<"S", "p">>,
            Tmdb |-> << >>, SeriesId |-> "B", age |-> 60],
    m3 |-> [Id |-> "m3", Type |-> "Movie",  Name |-> <<"C">>,
            Tmdb |-> <<"2", "x">>, SeriesId |-> NoItem, age |-> 14],
    s3 |-> [Id |-> "s3", Type |-> "Season", Name |-> <<"S", "3", "x", "1">>,
            Tmdb |-> << >>, SeriesId |-> "A", age |-> 56],
    s4 |-> [Id |-> "s4", Type |-> "Season", Name |-> <<"S", "2">>,
            Tmdb |-> << >>, SeriesId |-> "C", age |-> 80],
    m4 |-> [Id |-> "m4", Type |-> "Movie",  Name |-> <<"D">>,
            Tmdb |-> <<"x", "1">>, SeriesId |-> NoItem, age |-> 16],
    s5 |-> [Id |-> "s5", Type |-> "Season", Name |-> <<"S", "p">>,
            Tmdb |-> << >>, SeriesId |-> "A", age |-> 58] ]

\* the order the library service lists them in
ItemOrder == <<"m1", "s1", "m3", "s3", "x1", "m2", "s2", "s4", "m4", "s5">>

ItemIds == { ItemOrder[n] : n \in DOMAIN ItemOrder }

\* Radarr's movie records (getRadarrMovies), in fetch order.
RadarrDB ==
  << [id |-> 10, tmdbId |-> 1], [id |-> 11, tmdbId |-> 1], [id |-> 12, tmdbId |-> 2] >>

\* Sonarr's series records (getSonarrSeries), in fetch order.
SonarrDB ==
  << [id |-> 50, tvdbId |-> 5], [id |-> 51, tvdbId |-> 8] >>

\* Sonarr's episode records of one series (getSonarrEpisodes).
SonarrEpisodesDB(seriesId) ==
  IF seriesId = 50
    THEN << [seasonNumber |-> 1, hasFile |-> TRUE,  episodeFileId |-> 501],
            [seasonNumber |-> 1, hasFile |-> FALSE, episodeFileId |-> 0],
            [seasonNumber |-> 2, hasFile |-> TRUE,  episodeFileId |-> 503],
            [seasonNumber |-> 1, hasFile |-> TRUE,  episodeFileId |-> 502] >>
    ELSE << >>

\* The parent series entries of the library (getItemsByIds): Id and ProviderIds.Tvdb.
ParentSeriesDB ==
  [ A |-> [Id |-> "A", Tvdb |-> <<"5">>],
    B |-> [Id |-> "B", Tvdb |-> <<"6">>],
    C |-> [Id |-> "C", Tvdb |-> << >>] ]

\* --------------------------------------------------------- pure functions
Digits == {"0", "1", "2", "3", "4", "5", "6", "7", "8", "9"}

DigitVal(c) ==
  CASE c = "0" -> 0 [] c = "1" -> 1 [] c = "2" -> 2 [] c = "3" -> 3 [] c = "4" -> 4
    [] c = "5" -> 5 [] c = "6" -> 6 [] c = "7" -> 7 [] c = "8" -> 8 [] c = "9" -> 9

RECURSIVE LeadingDigits(_)
\* the longest prefix of s made of digits
LeadingDigits(s) ==
  IF s = << >> \/ Head(s) \notin Digits THEN << >>
  ELSE <<Head(s)>> \o LeadingDigits(Tail(s))

RECURSIVE DecimalValue(_, _)
DecimalValue(ds, acc) ==
  IF ds = << >> THEN acc ELSE DecimalValue(Tail(ds), 10 * acc + DigitVal(Head(ds)))

\* parseInt: the number written by the leading digits, NaN when there are none
parseInt(s) ==
  IF LeadingDigits(s) = << >> THEN NaN ELSE DecimalValue(LeadingDigits(s), 0)

RECURSIVE matchDigits(_)
\* Name.match(/\d+/): the first run of digits anywhere in s, << >> for no match
matchDigits(s) ==
  IF s = << >> THEN << >>
  ELSE IF Head(s) \in Digits THEN LeadingDigits(s)
  ELSE matchDigits(Tail(s))

\* a === b on numbers: NaN equals nothing
StrictEq(a, b) == a # NaN /\ b # NaN /\ a = b

\* what find gives when no element matches
Undefined == [undefined |-> TRUE]

RECURSIVE findLast(_, _, _)
\* Array.prototype.findLast: the last element that matches
findLast(list, key, val) ==
  IF list = << >> THEN Undefined
  ELSE IF StrictEq(list[Len(list)][key], val) THEN list[Len(list)]
  ELSE findLast(SubSeq(list, 1, Len(list) - 1), key, val)

RECURSIVE find(_, _, _)
\* Array.prototype.find on records whose field `key` is compared with `val`:
\* the first element that matches, Undefined for none
find(list, key, val) ==
  IF list = << >> THEN Undefined
  ELSE IF StrictEq(Head(list)[key], val) THEN Head(list)
  ELSE find(Tail(list), key, val)

RECURSIVE SeqToSet(_)
SeqToSet(s) == IF s = << >> THEN {} ELSE {Head(s)} \cup SeqToSet(Tail(s))

RECURSIVE Uniq(_)
\* [...new Set(s)]: s without its repeated elements, first occurrences kept
Uniq(s) ==
  IF s = << >> THEN << >>
  ELSE LET front == Uniq(SubSeq(s, 1, Len(s) - 1))
       IN  IF s[Len(s)] \in SeqToSet(front) THEN front ELSE Append(front, s[Len(s)])

\* Array.prototype.includes
includes(list, x) == \E n \in DOMAIN list : list[n] = x

\* x || dflt on a number setting: absent and 0 are both falsy
OrDefault(x, dflt) == IF x = NoVal \/ x = 0 THEN dflt ELSE x

\* one log line: the key given to t() and the parameters given with it
\* (name / seriesName are given by the item's id, count / successCount by count)
Log(msg, item, count) == [msg |-> msg, item |-> item, count |-> count, total |-> NoVal]

\* addLog: newest first
addLog(lg, entry) == <<entry>> \o lg


\* ------------------------------------------------------------------ state
VARIABLES
  settings,        \* SettingsContext: which services are configured, retention days
  library,         \* what getItems returns (ids of Items, in the service's order)
  exclusions,      \* the persisted exclusion list ('jellyfin-exclusions')
  isLoading,
  deletableItems,  \* the eligible pool (ids, in order)
  selectedItems,   \* the selection (set of ids)
  logs,            \* newest first
  error,           \* the error banner
  isModalOpen,
  pc,              \* "idle", or the external call the handler in flight awaits
  scanExcl,        \* the exclusions the handleScan closure in use was created with
  run,             \* the locals of the handleDelete in flight
  calls,           \* the external calls of the current deletion run, in order
  detached         \* handlers in flight of Automation views that are no longer mounted

vars == << settings, library, exclusions, isLoading, deletableItems, selectedItems,
           logs, error, isModalOpen, pc, scanExcl, run, calls, detached >>

movieRetentionDays == OrDefault(settings.movieRetentionDays, DefaultMovieRetentionDays)

tvSeasonRetentionDays == OrDefault(settings.tvSeasonRetentionDays, DefaultTvSeasonRetentionDays)

\* radarr?.url && radarr?.apiKey
radarrConfigured == settings.radarr

\* sonarr?.url && sonarr?.apiKey
sonarrConfigured == settings.sonarr

\* the locals of handleDelete before a run
NoRun ==
  [ itemsToDelete |-> << >>, successCount |-> 0, radarrMovies |-> << >>,
    sonarrSeries |-> << >>, seriesIdToProviderIdMap |-> << >>, idx |-> 0,
    sonarrSerie |-> Undefined, episodesToDelete |-> << >>, epIdx |-> 0,
    episodeDeletionSuccess |-> TRUE ]

\* the catalogs the library service can hold: up to MaxCatalog consecutive
\* entries of ItemOrder
Libraries ==
  { SubSeq(ItemOrder, w[1], w[2]) :
      w \in { v \in (DOMAIN ItemOrder) \X (0..Len(ItemOrder)) :
                v[2] >= v[1] - 1 /\ v[2] - v[1] < MaxCatalog } }

SettingsChoices ==
  { [radarr |-> TRUE,  sonarr |-> TRUE,  movieRetentionDays |-> NoVal, tvSeasonRetentionDays |-> NoVal],
    [radarr |-> FALSE, sonarr |-> TRUE,  movieRetentionDays |-> NoVal, tvSeasonRetentionDays |-> NoVal],
    [radarr |-> TRUE,  sonarr |-> FALSE, movieRetentionDays |-> 0,     tvSeasonRetentionDays |-> 0],
    [radarr |-> TRUE,  sonarr |-> TRUE,  movieRetentionDays |-> 3,     tvSeasonRetentionDays |-> 10] }

Init ==
  /\ settings \in SettingsChoices
  /\ library \in Libraries
  /\ exclusions = << >>
  /\ isLoading = FALSE
  /\ deletableItems = << >>
  /\ selectedItems = {}
  /\ logs = << >>
  /\ error = NULL
  /\ isModalOpen = FALSE
  /\ pc = "idle"
  /\ scanExcl = << >>
  /\ run = NoRun
  /\ calls = << >>
  /\ detached = 0

\* ------------------------------------------------------------ handleScan
\* isDeletable without the exclusion check
isDeletableIgnoringExclusions(item, excl) ==
  IF item.Type = "Movie" /\ item.age > HalfDaysPerDay * movieRetentionDays THEN TRUE
  ELSE IF item.Type = "Season" /\ item.age > HalfDaysPerDay * tvSeasonRetentionDays THEN TRUE
  ELSE FALSE

\* isDeletable with >= for the Movie threshold
isDeletableAtThreshold(item, excl) ==
  IF includes(excl, item.Id) THEN FALSE
  ELSE IF item.Type = "Movie" /\ item.age >= HalfDaysPerDay * movieRetentionDays THEN TRUE
  ELSE IF item.Type = "Season" /\ item.age > HalfDaysPerDay * tvSeasonRetentionDays THEN TRUE
  ELSE FALSE

\* the filter callback of handleScan, on the exclusions the closure holds
isDeletable(item, excl) ==
  IF includes(excl, item.Id) THEN FALSE
  ELSE IF item.Type = "Movie" /\ item.age > HalfDaysPerDay * movieRetentionDays THEN TRUE
  ELSE IF item.Type = "Season" /\ item.age > HalfDaysPerDay * tvSeasonRetentionDays THEN TRUE
  ELSE FALSE

\* allItems.filter(...)
itemsToFilter(allItems, excl) ==
  SelectSeq(allItems, LAMBDA id : isDeletable(Items[id], excl))

\* handleScan up to its await of getItems, on the log `lg`; `excl` is the
\* exclusion list of the render the handler was created in
ScanBegin(lg, excl) ==
  /\ isLoading' = TRUE
  /\ error' = NULL
  /\ deletableItems' = << >>
  /\ selectedItems' = {}
  /\ logs' = addLog(lg, Log("logScanStarted", NoItem, NoVal))
  /\ scanExcl' = excl
  /\ pc' = "getItems"

\* the scan button
handleScan ==
  /\ ~isLoading
  /\ Len(logs) < MaxLogLen
  /\ ScanBegin(logs, exclusions)
  /\ UNCHANGED << settings, library, detached, exclusions, isModalOpen, run, calls >>

\* getItems returned: the rest of the try block, then finally
getItemsReturned ==
  /\ pc = "getItems"
  /\ LET allItems == library
         kept == itemsToFilter(allItems, scanExcl)
     IN  /\ deletableItems' = kept
         /\ selectedItems' = SeqToSet(kept)
         /\ logs' = addLog(addLog(logs, Log("logScanFoundItems", NoItem, Len(allItems))),
                           Log("logScanComplete", NoItem, Len(kept)))
  /\ isLoading' = FALSE
  /\ pc' = "idle"
  /\ UNCHANGED << settings, library, detached, exclusions, error, isModalOpen, scanExcl, run, calls >>

\* getItems threw, in a handler without the finally of lines 176-178
getItemsThrewNoFinally ==
  /\ pc = "getItems"
  /\ error' = "logScanError"
  /\ logs' = addLog(logs, Log("logError", NoItem, NoVal))
  /\ pc' = "idle"
  /\ UNCHANGED << settings, library, detached, exclusions, isLoading, deletableItems,
                  selectedItems, isModalOpen, scanExcl, run, calls >>

\* getItems threw: catch, then finally
getItemsThrew ==
  /\ pc = "getItems"
  /\ error' = "logScanError"
  /\ logs' = addLog(logs, Log("logError", NoItem, NoVal))
  /\ isLoading' = FALSE
  /\ pc' = "idle"
  /\ UNCHANGED << settings, library, detached, exclusions, deletableItems, selectedItems,
                  isModalOpen, scanExcl, run, calls >>

\* ------------------------------------------------- selection and exclusion
handleToggleSelection(itemId) ==
  /\ includes(deletableItems, itemId)
  /\ selectedItems' = IF itemId \in selectedItems THEN selectedItems \ {itemId}
                      ELSE selectedItems \cup {itemId}
  /\ UNCHANGED << settings, library, detached, exclusions, isLoading, deletableItems, logs, error,
                  isModalOpen, pc, scanExcl, run, calls >>

\* handleExcludeItem without the setSelectedItems of lines 197-201
handleExcludeItemKeepsSelection(itemId) ==
  /\ includes(deletableItems, itemId)
  /\ (pc = "idle" \/ Len(exclusions) < MaxExcluded \/ includes(exclusions, itemId))
  /\ exclusions' = Uniq(Append(exclusions, itemId))
  /\ deletableItems' = SelectSeq(deletableItems, LAMBDA id : id # itemId)
  /\ logs' = addLog(logs, Log("logItemExcluded", itemId, NoVal))
  /\ UNCHANGED << settings, library, detached, isLoading, selectedItems, error, isModalOpen,
                  pc, scanExcl, run, calls >>

\* handleExcludeItem with [...prev, id] in place of [...new Set([...prev, id])]
handleExcludeItemAppend(itemId) ==
  /\ includes(deletableItems, itemId)
  /\ (pc = "idle" \/ Len(exclusions) < MaxExcluded \/ includes(exclusions, itemId))
  /\ exclusions' = Append(exclusions, itemId)
  /\ deletableItems' = SelectSeq(deletableItems, LAMBDA id : id # itemId)
  /\ selectedItems' = selectedItems \ {itemId}
  /\ logs' = addLog(logs, Log("logItemExcluded", itemId, NoVal))
  /\ UNCHANGED << settings, library, detached, isLoading, error, isModalOpen, pc, scanExcl, run, calls >>

\* the exclude button of a card of the pool; it is not disabled by isLoading.
\* While a run is in flight at most MaxExcluded new ids are excluded.
handleExcludeItem(itemId) ==
  /\ includes(deletableItems, itemId)
  /\ (pc = "idle" \/ Len(exclusions) < MaxExcluded \/ includes(exclusions, itemId))
  /\ exclusions' = Uniq(Append(exclusions, itemId))
  /\ deletableItems' = SelectSeq(deletableItems, LAMBDA id : id # itemId)
  /\ selectedItems' = selectedItems \ {itemId}
  /\ logs' = addLog(logs, Log("logItemExcluded", itemId, NoVal))
  /\ UNCHANGED << settings, library, detached, isLoading, error, isModalOpen, pc, scanExcl, run, calls >>

\* handleExcludeAll without the early return of line 206
handleExcludeAllUnguarded ==
  /\ ~isLoading
  /\ exclusions' = Uniq(exclusions \o deletableItems)
  /\ logs' = addLog(logs, Log("logAllExcluded", NoItem, Len(deletableItems)))
  /\ deletableItems' = << >>
  /\ selectedItems' = {}
  /\ UNCHANGED << settings, library, detached, isLoading, error, isModalOpen, pc, scanExcl, run, calls >>

\* the handler of the exclude-all button (disabled while isLoading); with an
\* empty pool the handler returns at once
handleExcludeAll ==
  /\ ~isLoading
  /\ IF Len(deletableItems) = 0
       THEN UNCHANGED vars
       ELSE /\ exclusions' = Uniq(exclusions \o deletableItems)
            /\ logs' = addLog(logs, Log("logAllExcluded", NoItem, Len(deletableItems)))
            /\ deletableItems' = << >>
            /\ selectedItems' = {}
            /\ UNCHANGED << settings, library, detached, isLoading, error, isModalOpen, pc, scanExcl,
                            run, calls >>

\* Exclusions.handleRemoveExclusion.  The Exclusions view replaces the
\* Automation view (App.renderView), so Automation is mounted anew afterwards:
\* its useState values are the initial ones.  The view is changed only while
\* no handler is in flight.
handleRemoveExclusion(itemId) ==
  /\ pc = "idle"
  /\ includes(exclusions, itemId)
  /\ exclusions' = SelectSeq(exclusions, LAMBDA id : id # itemId)
  /\ isLoading' = FALSE
  /\ deletableItems' = << >>
  /\ selectedItems' = {}
  /\ logs' = << >>
  /\ error' = NULL
  /\ isModalOpen' = FALSE
  /\ scanExcl' = << >>
  /\ run' = NoRun
  /\ calls' = << >>
  /\ UNCHANGED << settings, library, detached, pc >>

\* the delete button: setIsModalOpen(true)
openModal ==
  /\ deletableItems # << >>
  /\ ~isLoading
  /\ selectedItems # {}
  /\ ~isModalOpen
  /\ isModalOpen' = TRUE
  /\ UNCHANGED << settings, library, detached, exclusions, isLoading, deletableItems, selectedItems,
                  logs, error, pc, scanExcl, run, calls >>

\* Modal onClose
closeModal ==
  /\ isModalOpen
  /\ isModalOpen' = FALSE
  /\ UNCHANGED << settings, library, detached, exclusions, isLoading, deletableItems, selectedItems,
                  logs, error, pc, scanExcl, run, calls >>


\* ----------------------------------------------------------- handleDelete
\* The handler between two awaits works on k = [pc, logs, error, run, calls]:
\* the call it stops at, and what it has written so far.

\* the item the for loop is at
CurrentItem(k) == Items[k.run.itemsToDelete[k.run.idx]]

\* the handler reaches `await op(arg)`: the call goes out
Await(k, op, arg) ==
  [k EXCEPT !.pc = op,
            !.calls = Append(@, [op |-> op, arg |-> arg, result |-> "pending",
                                 item |-> IF k.run.idx \in DOMAIN k.run.itemsToDelete
                                          THEN k.run.itemsToDelete[k.run.idx] ELSE NoItem])]

\* the awaited call came back
Settled(k, result) ==
  [k EXCEPT !.calls = [@ EXCEPT ![Len(@)].result = result]]

\* addLog for the current item, then `continue` / the end of the loop body
LogAndNext(k, msg, count, won) ==
  [k EXCEPT !.logs = addLog(@, Log(msg, CurrentItem(k).Id, count)),
            !.run.successCount = @ + won,
            !.run.idx = @ + 1]

\* lines 233-234: the distinct SeriesId of the Season items, absent ones dropped
seriesIdsOf(items) ==
  LET seasonItems == SelectSeq(items, LAMBDA id : Items[id].Type = "Season")
      withParent == SelectSeq(seasonItems, LAMBDA id : Items[id].SeriesId # NoItem)
  IN  Uniq([ n \in DOMAIN withParent |-> Items[withParent[n]].SeriesId ])

\* getItemsByIds(jellyfin, seriesIds), turned into the Map of line 236
parentMap(seriesIds) ==
  [ sid \in SeqToSet(seriesIds) \cap DOMAIN ParentSeriesDB |-> ParentSeriesDB[sid].Tvdb ]

\* Map.get: undefined (an absent string) for a key the map does not hold
mapGet(map, key) == IF key \in DOMAIN map THEN map[key] ELSE << >>

\* MovieStep without the check that Radarr is configured
MovieStepUnchecked(k) ==
  LET item == CurrentItem(k)
      radarrMovie == find(k.run.radarrMovies, "tmdbId", parseInt(item.Tmdb))
  IN  IF item.Tmdb = << >> THEN LogAndNext(k, "logDeletionFailedTmdb", NoVal, 0)
      ELSE IF radarrMovie # Undefined THEN Await(k, "deleteRadarrMovie", radarrMovie.id)
      ELSE LogAndNext(k, "logDeletionInfoRadarr", NoVal, 0)

\* the body of `for (const item of itemsToDelete)` for a Movie, up to its await
MovieStep(k) ==
  LET item == CurrentItem(k)
      radarrMovie == find(k.run.radarrMovies, "tmdbId", parseInt(item.Tmdb))
  IN  IF ~radarrConfigured THEN LogAndNext(k, "logDeletionFailedRadarr", NoVal, 0)
      ELSE IF item.Tmdb = << >> THEN LogAndNext(k, "logDeletionFailedTmdb", NoVal, 0)
      ELSE IF radarrMovie # Undefined THEN Await(k, "deleteRadarrMovie", radarrMovie.id)
      ELSE LogAndNext(k, "logDeletionInfoRadarr", NoVal, 0)

\* SeasonStep counting a series without a Sonarr record as a success
SeasonStepCountsMiss(k) ==
  LET item == CurrentItem(k)
      tvdbId == mapGet(k.run.seriesIdToProviderIdMap, item.SeriesId)
      sonarrSerie == find(k.run.sonarrSeries, "tvdbId", parseInt(tvdbId))
  IN  IF ~sonarrConfigured THEN LogAndNext(k, "logDeletionFailedSonarr", NoVal, 0)
      ELSE IF tvdbId = << >> THEN LogAndNext(k, "logDeletionFailedTvdb", NoVal, 0)
      ELSE IF sonarrSerie # Undefined
        THEN Await([k EXCEPT !.run.sonarrSerie = sonarrSerie], "getSonarrEpisodes", sonarrSerie.id)
      ELSE LogAndNext(k, "logDeletionInfoSonarrSeries", NoVal, 1)

\* the body of the loop for a Season, up to its await
SeasonStep(k) ==
  LET item == CurrentItem(k)
      tvdbId == mapGet(k.run.seriesIdToProviderIdMap, item.SeriesId)
      sonarrSerie == find(k.run.sonarrSeries, "tvdbId", parseInt(tvdbId))
  IN  IF ~sonarrConfigured THEN LogAndNext(k, "logDeletionFailedSonarr", NoVal, 0)
      ELSE IF tvdbId = << >> THEN LogAndNext(k, "logDeletionFailedTvdb", NoVal, 0)
      ELSE IF sonarrSerie # Undefined
        THEN Await([k EXCEPT !.run.sonarrSerie = sonarrSerie], "getSonarrEpisodes", sonarrSerie.id)
      ELSE LogAndNext(k, "logDeletionInfoSonarrSeries", NoVal, 0)

\* one loop iteration up to its await, or to its end
ItemStep(k) ==
  IF CurrentItem(k).Type = "Movie" THEN MovieStep(k)
  ELSE IF CurrentItem(k).Type = "Season" THEN SeasonStep(k)
  ELSE [k EXCEPT !.run.idx = @ + 1]

RECURSIVE Loop(_)
\* the for loop from item run.idx on, up to the next await or to the end of the try block
Loop(k) ==
  IF k.pc # "loop" THEN k
  ELSE IF k.run.idx > Len(k.run.itemsToDelete) THEN [k EXCEPT !.pc = "finish"]
  ELSE Loop(ItemStep(k))

\* lines 233-236, between the series fetch and the loop
ParentsStage(k) ==
  IF seriesIdsOf(k.run.itemsToDelete) # << >>
    THEN Await(k, "getItemsByIds", seriesIdsOf(k.run.itemsToDelete))
    ELSE Loop([k EXCEPT !.pc = "loop", !.run.idx = 1])

\* line 231
SonarrStage(k) ==
  IF sonarrConfigured THEN Await(k, "getSonarrSeries", NoVal) ELSE ParentsStage(k)

\* line 230
RadarrStage(k) ==
  IF radarrConfigured THEN Await(k, "getRadarrMovies", NoVal) ELSE SonarrStage(k)

\* EpisodesStage reporting a season without files as a series that was not found
EpisodesStageNoFilesIsMiss(k) ==
  LET item == CurrentItem(k)
      episodes == SonarrEpisodesDB(k.run.sonarrSerie.id)
      seasonNumberMatch == matchDigits(item.Name)
      seasonNumber == parseInt(seasonNumberMatch)
      episodesToDelete ==
        SelectSeq(episodes, LAMBDA e : StrictEq(e.seasonNumber, seasonNumber) /\ e.hasFile)
  IN  IF seasonNumberMatch = << >>
        THEN Loop(LogAndNext([k EXCEPT !.pc = "loop"], "logDeletionFailedSeasonNumber", NoVal, 0))
      ELSE IF episodesToDelete = << >>
        THEN Loop(LogAndNext([k EXCEPT !.pc = "loop"], "logDeletionInfoSonarrSeries", NoVal, 0))
      ELSE Await([k EXCEPT !.run.episodesToDelete = episodesToDelete,
                           !.run.epIdx = 1,
                           !.run.episodeDeletionSuccess = TRUE],
                 "deleteSonarrEpisodeFile", episodesToDelete[1].episodeFileId)

\* lines 271-284, after getSonarrEpisodes returned
EpisodesStage(k) ==
  LET item == CurrentItem(k)
      episodes == SonarrEpisodesDB(k.run.sonarrSerie.id)
      seasonNumberMatch == matchDigits(item.Name)
      seasonNumber == parseInt(seasonNumberMatch)
      episodesToDelete ==
        SelectSeq(episodes, LAMBDA e : StrictEq(e.seasonNumber, seasonNumber) /\ e.hasFile)
  IN  IF seasonNumberMatch = << >>
        THEN Loop(LogAndNext([k EXCEPT !.pc = "loop"], "logDeletionFailedSeasonNumber", NoVal, 0))
      ELSE IF episodesToDelete = << >>
        THEN Loop(LogAndNext([k EXCEPT !.pc = "loop"], "logDeletionInfoSonarrFiles", NoVal, 1))
      ELSE Await([k EXCEPT !.run.episodesToDelete = episodesToDelete,
                           !.run.epIdx = 1,
                           !.run.episodeDeletionSuccess = TRUE],
                 "deleteSonarrEpisodeFile", episodesToDelete[1].episodeFileId)

\* EpisodeDeleted leaving the episode loop at the first failure
EpisodeDeletedStopsAtFailure(k, ok) ==
  LET k1 == IF ok THEN k
            ELSE [k EXCEPT !.logs = addLog(@, Log("logDeletionFailedEpisode", CurrentItem(k).Id, NoVal)),
                           !.run.episodeDeletionSuccess = FALSE]
  IN  IF ok /\ k1.run.epIdx < Len(k1.run.episodesToDelete)
        THEN Await([k1 EXCEPT !.run.epIdx = @ + 1], "deleteSonarrEpisodeFile",
                   k1.run.episodesToDelete[k1.run.epIdx + 1].episodeFileId)
      ELSE IF k1.run.episodeDeletionSuccess
        THEN Loop(LogAndNext([k1 EXCEPT !.pc = "loop"], "logDeletionSuccessSonarr",
                             Len(k1.run.episodesToDelete), 1))
      ELSE Loop(LogAndNext([k1 EXCEPT !.pc = "loop"], "logDeletionFailedSonarrMulti", NoVal, 0))

\* lines 286-300, after one deleteSonarrEpisodeFile returned (ok) or threw
EpisodeDeleted(k, ok) ==
  LET k1 == IF ok THEN k
            ELSE [k EXCEPT !.logs = addLog(@, Log("logDeletionFailedEpisode", CurrentItem(k).Id, NoVal)),
                           !.run.episodeDeletionSuccess = FALSE]
  IN  IF k1.run.epIdx < Len(k1.run.episodesToDelete)
        THEN Await([k1 EXCEPT !.run.epIdx = @ + 1], "deleteSonarrEpisodeFile",
                   k1.run.episodesToDelete[k1.run.epIdx + 1].episodeFileId)
      ELSE IF k1.run.episodeDeletionSuccess
        THEN Loop(LogAndNext([k1 EXCEPT !.pc = "loop"], "logDeletionSuccessSonarr",
                             Len(k1.run.episodesToDelete), 1))
      ELSE Loop(LogAndNext([k1 EXCEPT !.pc = "loop"], "logDeletionFailedSonarrMulti", NoVal, 0))

\* a catch that reports the error and goes on with the loop
CatchAndGoOn(k) ==
  Loop([k EXCEPT !.error = "logDeletionCriticalError",
                 !.logs = addLog(@, Log("logError", NoItem, NoVal)),
                 !.run.idx = @ + 1,
                 !.pc = "loop"])

\* the catch of lines 306-310
Catch(k) ==
  [k EXCEPT !.error = "logDeletionCriticalError",
            !.logs = addLog(@, Log("logError", NoItem, NoVal)),
            !.pc = "finish"]

\* lines 312-314, the end of handleDelete
Complete(lg, r) ==
  addLog(lg, [msg |-> "logDeletionComplete", item |-> NoItem,
              count |-> r.successCount, total |-> Len(r.itemsToDelete)])

\* Commit without the handleScan() of line 314
CommitWithoutRescan(k) ==
  /\ run' = k.run
  /\ calls' = k.calls
  /\ error' = k.error
  /\ IF k.pc = "finish"
       THEN /\ pc' = "idle"
            /\ logs' = Complete(k.logs, k.run)
            /\ isLoading' = FALSE
            /\ UNCHANGED << deletableItems, selectedItems, scanExcl >>
       ELSE /\ pc' = k.pc
            /\ logs' = k.logs
            /\ UNCHANGED << isLoading, deletableItems, selectedItems, scanExcl >>

\* what the handler has done when it stops at k: at an await the writes so far,
\* at the end the completion marker and the synchronous part of handleScan
Commit(k) ==
  /\ run' = k.run
  /\ calls' = k.calls
  /\ IF k.pc = "finish"
       THEN ScanBegin(Complete(k.logs, k.run), scanExcl)
       ELSE /\ pc' = k.pc
            /\ logs' = k.logs
            /\ error' = k.error
            /\ UNCHANGED << isLoading, deletableItems, selectedItems, scanExcl >>

Here == [pc |-> pc, logs |-> logs, error |-> error, run |-> run, calls |-> calls]

\* Modal onConfirm
handleDelete ==
  /\ isModalOpen
  /\ selectedItems # {}
  /\ Len(logs) < MaxLogLen
  /\ isModalOpen' = FALSE
  /\ LET itemsToDelete == SelectSeq(deletableItems, LAMBDA id : id \in selectedItems)
         k == RadarrStage(
                [pc |-> "start",
                 logs |-> addLog(logs, Log("logDeletionStarted", NoItem, Cardinality(selectedItems))),
                 error |-> error,
                 run |-> [NoRun EXCEPT !.itemsToDelete = itemsToDelete, !.idx = 0],
                 calls |-> << >>])
     IN  /\ run' = k.run
         /\ calls' = k.calls
         /\ IF k.pc = "finish"
              THEN ScanBegin(Complete(k.logs, k.run), exclusions)
              ELSE /\ pc' = k.pc
                   /\ logs' = k.logs
                   /\ error' = k.error
                   /\ isLoading' = TRUE
                   /\ scanExcl' = exclusions
                   /\ UNCHANGED << deletableItems, selectedItems >>
  /\ UNCHANGED << settings, library, detached, exclusions >>

getRadarrMoviesReturned ==
  /\ pc = "getRadarrMovies"
  /\ Commit(SonarrStage([Settled(Here, "ok") EXCEPT !.run.radarrMovies = RadarrDB]))
  /\ UNCHANGED << settings, library, detached, exclusions, isModalOpen >>

getSonarrSeriesReturned ==
  /\ pc = "getSonarrSeries"
  /\ Commit(ParentsStage([Settled(Here, "ok") EXCEPT !.run.sonarrSeries = SonarrDB]))
  /\ UNCHANGED << settings, library, detached, exclusions, isModalOpen >>

getItemsByIdsReturned ==
  /\ pc = "getItemsByIds"
  /\ Commit(Loop([Settled(Here, "ok") EXCEPT
                    !.run.seriesIdToProviderIdMap = parentMap(seriesIdsOf(run.itemsToDelete)),
                    !.run.idx = 1,
                    !.pc = "loop"]))
  /\ UNCHANGED << settings, library, detached, exclusions, isModalOpen >>

\* deleteRadarrMovieReturned that also puts the deleted item on the exclusion list
deleteRadarrMovieReturnedExcludes ==
  /\ pc = "deleteRadarrMovie"
  /\ Commit(Loop(LogAndNext([Settled(Here, "ok") EXCEPT !.pc = "loop"],
                            "logDeletionSuccessRadarr", NoVal, 1)))
  /\ exclusions' = Uniq(Append(exclusions, CurrentItem(Here).Id))
  /\ UNCHANGED << settings, library, detached, isModalOpen >>

deleteRadarrMovieReturned ==
  /\ pc = "deleteRadarrMovie"
  /\ Commit(Loop(LogAndNext([Settled(Here, "ok") EXCEPT !.pc = "loop"],
                            "logDeletionSuccessRadarr", NoVal, 1)))
  /\ UNCHANGED << settings, library, detached, exclusions, isModalOpen >>

getSonarrEpisodesReturned ==
  /\ pc = "getSonarrEpisodes"
  /\ Commit(EpisodesStage(Settled(Here, "ok")))
  /\ UNCHANGED << settings, library, detached, exclusions, isModalOpen >>

deleteSonarrEpisodeFileReturned ==
  /\ pc = "deleteSonarrEpisodeFile"
  /\ Commit(EpisodeDeleted(Settled(Here, "ok"), TRUE))
  /\ UNCHANGED << settings, library, detached, exclusions, isModalOpen >>

deleteSonarrEpisodeFileThrew ==
  /\ pc = "deleteSonarrEpisodeFile"
  /\ Commit(EpisodeDeleted(Settled(Here, "threw"), FALSE))
  /\ UNCHANGED << settings, library, detached, exclusions, isModalOpen >>

\* any other awaited call of the run threw: the outer catch
callThrew ==
  /\ pc \in {"getRadarrMovies", "getSonarrSeries", "getItemsByIds",
             "deleteRadarrMovie", "getSonarrEpisodes"}
  /\ Commit(Catch(Settled(Here, "threw")))
  /\ UNCHANGED << settings, library, detached, exclusions, isModalOpen >>

Next ==
  \/ handleScan
  \/ getItemsReturned
  \/ getItemsThrew
  \/ \E itemId \in ItemIds : handleToggleSelection(itemId)
  \/ \E itemId \in ItemIds : handleExcludeItem(itemId)
  \/ handleExcludeAll
  \/ \E itemId \in ItemIds : handleRemoveExclusion(itemId)
  \/ openModal
  \/ closeModal
  \/ handleDelete
  \/ getRadarrMoviesReturned
  \/ getSonarrSeriesReturned
  \/ getItemsByIdsReturned
  \/ deleteRadarrMovieReturned
  \/ getSonarrEpisodesReturned
  \/ deleteSonarrEpisodeFileReturned
  \/ deleteSonarrEpisodeFileThrew
  \/ callThrew

Spec == Init /\ [][Next]_vars

\* --------------------------------------------------------------- fairness
\* the call the handler in flight awaits returns or throws: the handler is at
\* another await or has ended (pc changed), or it has written the result of
\* the call (calls changed).  It is possible whenever a handler is in flight;
\* the first disjunct is one such step, given so that ENABLED is computed
\* from it.
callSettles ==
  /\ pc # "idle"
  /\ \/ /\ pc' = "idle"
        /\ UNCHANGED << settings, library, detached, exclusions, isLoading, deletableItems,
                        selectedItems, logs, error, isModalOpen, scanExcl, run, calls >>
     \/ pc' # pc
     \/ calls' # calls

\* the catalogs of the runs checked for termination: both kinds of item, a
\* season with files, a season of an unknown series
LiveLibraries == { <<"m1", "s1", "m3">>, <<"m2", "s2">> }

LiveInit ==
  /\ Init
  /\ settings.radarr /\ settings.sonarr
  /\ library \in LiveLibraries

\* the program when every external call eventually returns or throws
LiveSpec == LiveInit /\ [][Next]_vars /\ WF_vars(callSettles)

\* ------------------------------------------------- leaving the view in flight
\* Sidebar setView while a handler of Automation is in flight, and setView
\* back to 'automation': App.renderView unmounts Automation and mounts it anew
\* with its initial useState values; the handler of the unmounted view goes on
\* with its calls, its setState calls reach no mounted component
setViewInFlight ==
  /\ pc # "idle"
  /\ detached < MaxDetached
  /\ detached' = detached + 1
  /\ isLoading' = FALSE
  /\ deletableItems' = << >>
  /\ selectedItems' = {}
  /\ logs' = << >>
  /\ error' = NULL
  /\ isModalOpen' = FALSE
  /\ pc' = "idle"
  /\ scanExcl' = << >>
  /\ run' = NoRun
  /\ calls' = << >>
  /\ UNCHANGED << settings, library, exclusions >>

\* a handler of an unmounted view ran to its end
detachedSettled ==
  /\ detached > 0
  /\ detached' = detached - 1
  /\ UNCHANGED << settings, library, exclusions, isLoading, deletableItems, selectedItems,
                  logs, error, isModalOpen, pc, scanExcl, run, calls >>

NextViews ==
  \/ Next
  \/ setViewInFlight
  \/ detachedSettled

\* the program with the Sidebar in use at any time
SpecViews == Init /\ [][NextViews]_vars


\* ================================================================ claims
\* ---------------------------------------------- reading the log of a run
\* the log down to the latest "logDeletionStarted", newest first; empty when
\* no run was started
UpToStart(lg) ==
  LET starts == { n \in DOMAIN lg : lg[n].msg = "logDeletionStarted" }
  IN  IF starts = {} THEN << >>
      ELSE SubSeq(lg, 1, CHOOSE n \in starts : \A m \in starts : n <= m)

RECURSIVE FromComplete(_)
\* lg from its completion marker on (the lines after the run dropped); lg
\* itself when the run has not ended
FromComplete(lg) ==
  IF \A n \in DOMAIN lg : lg[n].msg # "logDeletionComplete" THEN lg
  ELSE IF Head(lg).msg = "logDeletionComplete" THEN lg
  ELSE FromComplete(Tail(lg))

\* the lines of the latest deletion run, newest first, from its
\* "logDeletionStarted" to its "logDeletionComplete" (or to now)
RunLog == FromComplete(UpToStart(logs))

RunStarted == RunLog # << >>

RunEnded == \E n \in DOMAIN RunLog : RunLog[n].msg = "logDeletionComplete"

\* the batch of the latest run
Batch == run.itemsToDelete

PosInBatch(id) == CHOOSE n \in DOMAIN Batch : Batch[n] = id

\* the per-item outcomes, by the log key that reports them
SucceededMsgs == {"logDeletionSuccessRadarr", "logDeletionSuccessSonarr", "logDeletionInfoSonarrFiles"}

SkippedUnconfiguredMsgs == {"logDeletionFailedRadarr", "logDeletionFailedSonarr"}

SkippedNoExternalIdMsgs == {"logDeletionFailedTmdb", "logDeletionFailedTvdb"}

SkippedNoMatchMsgs == {"logDeletionInfoRadarr", "logDeletionInfoSonarrSeries"}

SkippedNoSeasonNumberMsgs == {"logDeletionFailedSeasonNumber"}

PartiallyFailedMsgs == {"logDeletionFailedSonarrMulti"}

\* a per-item Failed outcome would be an entry of the item under this key
FailedMsgs == {"logDeletionFailed"}

OutcomeMsgs ==
  SucceededMsgs \cup SkippedUnconfiguredMsgs \cup SkippedNoExternalIdMsgs \cup SkippedNoMatchMsgs
    \cup SkippedNoSeasonNumberMsgs \cup PartiallyFailedMsgs \cup FailedMsgs

\* the places of the run's log that hold an outcome of item id
OutcomesOf(id) == { n \in DOMAIN RunLog : RunLog[n].item = id /\ RunLog[n].msg \in OutcomeMsgs }

\* the outcome keys logged for item id in the run
OutcomeKeys(id) == { RunLog[n].msg : n \in OutcomesOf(id) }

\* the run's calls made for item id under operation op
CallsFor(id, op) == { n \in DOMAIN calls : calls[n].item = id /\ calls[n].op = op }

Threw(op) == { n \in DOMAIN calls : calls[n].op = op /\ calls[n].result = "threw" }

RunLevelErrors == { n \in DOMAIN RunLog : RunLog[n].msg = "logError" /\ RunLog[n].item = NoItem }

PreFetchOps == {"getRadarrMovies", "getSonarrSeries", "getItemsByIds"}

ItemOps == {"deleteRadarrMovie", "getSonarrEpisodes", "deleteSonarrEpisodeFile"}

RunAwaits == PreFetchOps \cup ItemOps

\* the success count of the run is the number of Succeeded outcomes it logged
SuccessCounted ==
  RunStarted => run.successCount = Cardinality({ n \in DOMAIN RunLog : RunLog[n].msg \in SucceededMsgs })

\* C1: a deletion run never aborts on one item's transport error: when the
\* delete-movie call or the episode-list fetch of an item throws, that item
\* gets a per-item Failed outcome and every later item of the batch gets its
\* own outcome by the end of the run.
C1_NoAbortOnItemError ==
  RunEnded =>
    \A n \in Threw("deleteRadarrMovie") \cup Threw("getSonarrEpisodes") :
      /\ OutcomeKeys(calls[n].item) \subseteq FailedMsgs
      /\ OutcomesOf(calls[n].item) # {}
      /\ \A p \in DOMAIN Batch : p > PosInBatch(calls[n].item) => OutcomesOf(Batch[p]) # {}

\* C2: when a deletion run has ended, every item of its batch has exactly one
\* per-item outcome in the log, whether or not a call threw.  (Stated for the
\* runs whose pre-fetch calls all returned: the items were reached.)
C2_OneOutcomePerItem ==
  (RunEnded /\ \A op \in PreFetchOps : Threw(op) = {}) =>
    \A p \in DOMAIN Batch : Cardinality(OutcomesOf(Batch[p])) = 1


\* ------------------------------------------------------------------ scans
\* a scan has just put its result: nothing was logged since its last line
ScanJustDone == logs # << >> /\ Head(logs).msg = "logScanComplete"

\* old enough for its kind, under the thresholds the scan applies
PastRetention(id) ==
  \/ Items[id].Type = "Movie" /\ Items[id].age > HalfDaysPerDay * movieRetentionDays
  \/ Items[id].Type = "Season" /\ Items[id].age > HalfDaysPerDay * tvSeasonRetentionDays

AtRetention(id) ==
  \/ Items[id].Type = "Movie" /\ Items[id].age = HalfDaysPerDay * movieRetentionDays
  \/ Items[id].Type = "Season" /\ Items[id].age = HalfDaysPerDay * tvSeasonRetentionDays

\* C3: an entry of the catalog whose Id is in the exclusion list the scan read
\* is not in the eligible pool the scan produced (nor in the selection),
\* whatever its kind and age.
C3_ExcludedNeverEligible ==
  ScanJustDone =>
    \A n \in DOMAIN library :
      includes(scanExcl, library[n]) =>
        ~includes(deletableItems, library[n]) /\ library[n] \notin selectedItems

\* a scan has ended that read an excluded entry which is past its retention
C3_Witness ==
  /\ ScanJustDone
  /\ \E n \in DOMAIN library : includes(scanExcl, library[n]) /\ PastRetention(library[n])
  /\ deletableItems # << >>

\* C4: a non-excluded entry is in the pool a scan produced iff it is a Movie
\* older than the movie threshold or a Season older than the season threshold
\* (strictly); the pool lists its entries once each, in the catalog's order.
C4_EligibleIffPastRetention ==
  ScanJustDone =>
    /\ \A n \in DOMAIN library :
         ~includes(scanExcl, library[n]) =>
           (includes(deletableItems, library[n]) <=> PastRetention(library[n]))
    /\ \A a, b \in DOMAIN deletableItems :
         a < b => \E m, n \in DOMAIN library :
                    m < n /\ library[m] = deletableItems[a] /\ library[n] = deletableItems[b]
    /\ \A a \in DOMAIN deletableItems : includes(library, deletableItems[a])

\* a scan has ended on a catalog with an entry exactly at its threshold, an
\* entry of another kind, and an entry it kept
C4_Witness ==
  /\ ScanJustDone
  /\ \E n \in DOMAIN library : AtRetention(library[n]) /\ ~includes(deletableItems, library[n])
  /\ \E n \in DOMAIN library : Items[library[n]].Type \notin {"Movie", "Season"}
  /\ deletableItems # << >>


\* -------------------------------------------------------- seasons' files
\* the calls of the run made for item id under op, in the order they were made
CallSeqFor(id, op) == SelectSeq(calls, LAMBDA c : c.item = id /\ c.op = op)

\* the Sonarr record of the parent series of season id; Undefined for none
SeriesRecordOf(id) ==
  IF Items[id].SeriesId \in DOMAIN ParentSeriesDB
    THEN find(SonarrDB, "tvdbId", parseInt(ParentSeriesDB[Items[id].SeriesId].Tvdb))
    ELSE Undefined

HasSeasonNumber(id) == \E n \in DOMAIN Items[id].Name : Items[id].Name[n] \in Digits

\* the files of season id: its series' episodes of that season number that have a file
MatchedFiles(id) ==
  IF SeriesRecordOf(id) = Undefined \/ ~HasSeasonNumber(id) THEN << >>
  ELSE LET eps == SelectSeq(SonarrEpisodesDB(SeriesRecordOf(id).id),
                            LAMBDA e : e.hasFile /\ e.seasonNumber = parseInt(matchDigits(Items[id].Name)))
       IN  [ n \in DOMAIN eps |-> eps[n].episodeFileId ]

FailedEpisodeLines(id) ==
  { n \in DOMAIN RunLog : RunLog[n].item = id /\ RunLog[n].msg = "logDeletionFailedEpisode" }

FailedFileCalls(id) ==
  { n \in CallsFor(id, "deleteSonarrEpisodeFile") : calls[n].result = "threw" }

\* the for loop is past place p of the batch
Past(p) == p < run.idx

\* the loop went on after place p: the next item has its outcome or a call of its own
NextReached(p) ==
  p < Len(Batch) =>
    \/ OutcomesOf(Batch[p + 1]) # {}
    \/ \E n \in DOMAIN calls : calls[n].item = Batch[p + 1]

\* what C5 says of every season whose files the run has started to delete,
\* but for the detail of a partial failure
FilesDeletedIndependently(id) ==
  LET made == CallSeqFor(id, "deleteSonarrEpisodeFile")
  IN  /\ Len(made) <= Len(MatchedFiles(id))
      /\ \A n \in DOMAIN made : made[n].arg = MatchedFiles(id)[n]
      /\ \A n \in DOMAIN made :
           made[n].result = "threw" /\ n < Len(MatchedFiles(id)) => Len(made) > n
      /\ Past(PosInBatch(id)) =>
           /\ Len(made) = Len(MatchedFiles(id))
           /\ Cardinality(OutcomesOf(id)) = 1
           /\ OutcomeKeys(id) = IF FailedFileCalls(id) = {} THEN {"logDeletionSuccessSonarr"}
                                ELSE {"logDeletionFailedSonarrMulti"}

\* C5 as claimed: the files of a season are deleted by independent calls, the
\* season is Succeeded (and counted) iff all of them succeeded, and otherwise
\* PartiallyFailed with the number of failed calls in the detail of that outcome.
C5_FailureCountInDetail ==
  RunStarted =>
    /\ SuccessCounted
    /\ \A p \in DOMAIN Batch :
         CallsFor(Batch[p], "deleteSonarrEpisodeFile") # {} =>
           /\ FilesDeletedIndependently(Batch[p])
           /\ \A n \in OutcomesOf(Batch[p]) :
                RunLog[n].msg \in PartiallyFailedMsgs =>
                  RunLog[n].count = Cardinality(FailedFileCalls(Batch[p]))

\* C5 (amended): the files of a season are deleted by independent calls, the
\* season is Succeeded (and counted) iff all of them succeeded, and otherwise
\* PartiallyFailed (not counted); the PartiallyFailed line carries no count,
\* and one "logDeletionFailedEpisode" line is logged per failed call.
C5_PartialFailureLoggedPerEpisode ==
  RunStarted =>
    /\ SuccessCounted
    /\ \A p \in DOMAIN Batch :
         CallsFor(Batch[p], "deleteSonarrEpisodeFile") # {} =>
           /\ FilesDeletedIndependently(Batch[p])
           /\ Cardinality(FailedEpisodeLines(Batch[p])) = Cardinality(FailedFileCalls(Batch[p]))
           /\ \A n \in OutcomesOf(Batch[p]) :
                RunLog[n].msg \in PartiallyFailedMsgs => RunLog[n].count = NoVal

\* a season of two files whose first deletion threw and whose second succeeded,
\* followed by an item that was processed
C5_Witness ==
  /\ RunEnded
  /\ \E p \in DOMAIN Batch :
       /\ Len(MatchedFiles(Batch[p])) >= 2
       /\ Len(CallSeqFor(Batch[p], "deleteSonarrEpisodeFile")) = Len(MatchedFiles(Batch[p]))
       /\ CallSeqFor(Batch[p], "deleteSonarrEpisodeFile")[1].result = "threw"
       /\ CallSeqFor(Batch[p], "deleteSonarrEpisodeFile")[2].result = "ok"
       /\ OutcomeKeys(Batch[p]) = {"logDeletionFailedSonarrMulti"}
       /\ p < Len(Batch)
       /\ OutcomesOf(Batch[p + 1]) # {}

\* a run-level error is logged only when a call outside the episode loop threw
ErrorOnlyFromThrow ==
  RunLevelErrors # {} => \E op \in RunAwaits \ {"deleteSonarrEpisodeFile"} : Threw(op) # {}

\* C6: a season whose series record is matched and whose episode list holds no
\* episode of its season number with a file is Succeeded (counted), no file
\* deletion is issued for it, and the run goes on with the next item.
C6_NoFilesIsSuccess ==
  RunStarted =>
    /\ SuccessCounted
    /\ ErrorOnlyFromThrow
    /\ \A n \in DOMAIN calls :
         ( /\ calls[n].op = "getSonarrEpisodes"
           /\ calls[n].result = "ok"
           /\ HasSeasonNumber(calls[n].item)
           /\ MatchedFiles(calls[n].item) = << >> ) =>
           /\ OutcomeKeys(calls[n].item) = {"logDeletionInfoSonarrFiles"}
           /\ Cardinality(OutcomesOf(calls[n].item)) = 1
           /\ CallsFor(calls[n].item, "deleteSonarrEpisodeFile") = {}
           /\ Past(PosInBatch(calls[n].item))
           /\ NextReached(PosInBatch(calls[n].item))

\* a run has ended in which such a season was followed by another item, and
\* the season is the one success of the run
C6_Witness ==
  /\ RunEnded
  /\ run.successCount = 1
  /\ \E n \in DOMAIN calls :
       /\ calls[n].op = "getSonarrEpisodes"
       /\ calls[n].result = "ok"
       /\ HasSeasonNumber(calls[n].item)
       /\ MatchedFiles(calls[n].item) = << >>
       /\ PosInBatch(calls[n].item) < Len(Batch)
       /\ OutcomeKeys(calls[n].item) = {"logDeletionInfoSonarrFiles"}


\* ------------------------------------------------ unconfigured managers
RadarrOps == {"getRadarrMovies", "deleteRadarrMovie"}

SonarrOps == {"getSonarrSeries", "getSonarrEpisodes", "deleteSonarrEpisodeFile"}

\* the manager an item of this kind is deleted through is not configured
Unconfigured(id) ==
  \/ Items[id].Type = "Movie" /\ ~radarrConfigured
  \/ Items[id].Type = "Season" /\ ~sonarrConfigured

\* C7: a manager that is not configured is never called during a deletion run
\* (no record list, no episode list, no delete); every item of its kind the
\* loop handles gets the one outcome SkippedUnconfigured and the loop goes on;
\* no run-level error comes from it, so a run in which no call threw gives
\* every item of the batch, of either kind, its outcome.
C7_UnconfiguredIsSkipped ==
  RunStarted =>
    /\ ~radarrConfigured => \A n \in DOMAIN calls : calls[n].op \notin RadarrOps
    /\ ~sonarrConfigured => \A n \in DOMAIN calls : calls[n].op \notin SonarrOps
    /\ ErrorOnlyFromThrow
    /\ pc \in ItemOps => ~Unconfigured(Batch[run.idx])
    /\ \A p \in DOMAIN Batch :
         Unconfigured(Batch[p]) /\ Past(p) =>
           /\ Cardinality(OutcomesOf(Batch[p])) = 1
           /\ OutcomeKeys(Batch[p]) \subseteq SkippedUnconfiguredMsgs
           /\ NextReached(p)
    /\ (RunEnded /\ \A op \in RunAwaits : Threw(op) = {}) =>
         \A p \in DOMAIN Batch : Cardinality(OutcomesOf(Batch[p])) = 1

\* a run has ended without Radarr: its movie was skipped as unconfigured and
\* the season after it was deleted through Sonarr
C7_Witness ==
  /\ RunEnded
  /\ ~radarrConfigured
  /\ \E p, q \in DOMAIN Batch :
       /\ p < q
       /\ Items[Batch[p]].Type = "Movie"
       /\ OutcomeKeys(Batch[p]) = {"logDeletionFailedRadarr"}
       /\ Items[Batch[q]].Type = "Season"
       /\ OutcomeKeys(Batch[q]) = {"logDeletionSuccessSonarr"}

\* ------------------------------------------------------ correlation misses
NoRecordFor(list, key, idString) ==
  \A n \in DOMAIN list : list[n][key] # parseInt(idString)

ParentTvdb(id) ==
  IF Items[id].SeriesId \in DOMAIN ParentSeriesDB
    THEN ParentSeriesDB[Items[id].SeriesId].Tvdb ELSE << >>

\* the outcome C8 expects of item id: "" when the item is no correlation miss
MissKey(id) ==
  IF Items[id].Type = "Movie" /\ radarrConfigured
    THEN IF Items[id].Tmdb = << >> THEN "logDeletionFailedTmdb"
         ELSE IF NoRecordFor(RadarrDB, "tmdbId", Items[id].Tmdb) THEN "logDeletionInfoRadarr"
         ELSE ""
  ELSE IF Items[id].Type = "Season" /\ sonarrConfigured
    THEN IF ParentTvdb(id) = << >> THEN "logDeletionFailedTvdb"
         ELSE IF NoRecordFor(SonarrDB, "tvdbId", ParentTvdb(id)) THEN "logDeletionInfoSonarrSeries"
         ELSE ""
  ELSE ""

\* C8: a Movie without a Tmdb id or without a Radarr record of that id, and a
\* Season whose parent series has no Tvdb id or no Sonarr record of that id, is
\* skipped: no call is made for it, its one outcome is the skip of its case and
\* is not counted as a success, no run-level error comes from it, and the loop
\* goes on with the next item.
C8_CorrelationMissIsSkip ==
  RunStarted =>
    /\ SuccessCounted
    /\ ErrorOnlyFromThrow
    /\ pc \in ItemOps => MissKey(Batch[run.idx]) = ""
    /\ \A p \in DOMAIN Batch :
         MissKey(Batch[p]) # "" =>
           /\ \A n \in DOMAIN calls : calls[n].item # Batch[p]
           /\ OutcomeKeys(Batch[p]) \cap SucceededMsgs = {}
           /\ Past(p) =>
                /\ Cardinality(OutcomesOf(Batch[p])) = 1
                /\ OutcomeKeys(Batch[p]) = {MissKey(Batch[p])}
                /\ NextReached(p)

\* a run has ended whose batch held a movie miss and a season miss, each
\* followed by an item that was handled, and nothing was counted
C8_Witness ==
  /\ RunEnded
  /\ run.successCount = 0
  /\ RunLevelErrors = {}
  /\ \E p, q \in DOMAIN Batch :
       /\ p < q /\ q < Len(Batch)
       /\ Items[Batch[p]].Type = "Movie" /\ MissKey(Batch[p]) # ""
       /\ Items[Batch[q]].Type = "Season" /\ MissKey(Batch[q]) = "logDeletionInfoSonarrSeries"
       /\ OutcomesOf(Batch[p]) # {}
       /\ OutcomesOf(Batch[q]) # {}
       /\ OutcomesOf(Batch[q + 1]) # {}

\* ------------------------------------------------------ pre-fetch failure
PreFetchThrew == \E op \in PreFetchOps : Threw(op) # {}

\* C9: when a pre-fetch call of a run throws, no item is processed and no
\* delete (or any further) call is made in that run, no per-item outcome is
\* logged, and the failure is logged once, as a run-level error, before the
\* completion marker.
C9_PreFetchFailureAbortsRun ==
  (RunStarted /\ PreFetchThrew) =>
    /\ calls[Len(calls)].op \in PreFetchOps
    /\ calls[Len(calls)].result = "threw"
    /\ \A n \in DOMAIN calls : calls[n].op \in PreFetchOps
    /\ \A p \in DOMAIN Batch : OutcomesOf(Batch[p]) = {}
    /\ run.idx = 0
    /\ run.successCount = 0
    /\ Cardinality(RunLevelErrors) = 1
    /\ RunEnded
    /\ pc \notin RunAwaits

\* the parent-series lookup of a run threw after both record lists were fetched
C9_Witness ==
  /\ RunStarted
  /\ Threw("getItemsByIds") # {}
  /\ Len(calls) = 3
  /\ Len(Batch) >= 2

\* ------------------------------------------------------------- the re-scan
\* the number of completion markers in a log
Completions(lg) == Cardinality({ n \in DOMAIN lg : lg[n].msg = "logDeletionComplete" })

\* a step of the deletion run: it made or settled a call, or moved the run's locals
RunStep == calls' # calls \/ run' # run

\* the step that logs the completion marker invokes handleScan
MarkerStartsScan ==
  (Len(logs') >= Len(logs) /\ Completions(logs') > Completions(logs)) =>
    /\ pc' = "getItems"
    /\ isLoading'
    /\ logs'[1].msg = "logScanStarted"
    /\ logs'[2].msg = "logDeletionComplete"
    /\ deletableItems' = << >>
    /\ selectedItems' = {}

\* a run in flight stays in flight or ends by the marker and the scan
RunEndsOnlyInScan ==
  pc \in RunAwaits =>
    /\ pc' \in RunAwaits \cup {"getItems"}
    /\ (pc' = "getItems" => Completions(logs') > Completions(logs))

\* a step of the run that does not end it leaves the pool and the selection alone
RunKeepsPool ==
  (RunStep /\ pc' \in RunAwaits) =>
    (deletableItems' = deletableItems /\ selectedItems' = selectedItems)

\* C10: the step of a deletion run that logs the completion marker invokes
\* handleScan (the scan's first line follows the marker and the scan awaits
\* getItems), however the run ended; a run in flight ends in no other way; and
\* no other step of the run changes the eligible pool or the selection.
C10_RunEndsInRescan ==
  [][MarkerStartsScan /\ RunEndsOnlyInScan /\ RunKeepsPool]_vars

\* the re-scan is in flight after a run that ended with a run-level error
C10_Witness ==
  /\ pc = "getItems"
  /\ RunEnded
  /\ RunLevelErrors # {}
  /\ Len(Batch) >= 2

\* ------------------------------------------------------- exclusion store
\* how often id occurs in the list
Occurrences(list, id) == Cardinality({n \in DOMAIN list : list[n] = id})

\* the step put a new line `msg` on top of the log
Logged(msg) ==
  /\ Len(logs') = Len(logs) + 1
  /\ Head(logs').msg = msg
  /\ Tail(logs') = logs

\* C11: a step that logs "all excluded" (handleExcludeAll) starts from a pool
\* of N >= 1 items and is logged with that N, leaves the pool and the
\* selection empty, has every id of the pool in the exclusion list exactly
\* once, keeps every id excluded before, in place, and adds no other id; so
\* with an empty pool handleExcludeAll writes nothing, not even a log line.
C11_ExcludeAllMovesPool ==
  [][Logged("logAllExcluded") =>
       /\ Len(deletableItems) >= 1
       /\ Head(logs').count = Len(deletableItems)
       /\ deletableItems' = << >>
       /\ selectedItems' = {}
       /\ \A id \in SeqToSet(deletableItems) : Occurrences(exclusions', id) = 1
       /\ SubSeq(exclusions', 1, Len(exclusions)) = exclusions
       /\ SeqToSet(exclusions') = SeqToSet(exclusions) \cup SeqToSet(deletableItems)
       /\ UNCHANGED << isLoading, error, isModalOpen, pc >>]_vars

\* excludeAll has run over a pool of two or more with an id excluded before
C11_Witness ==
  /\ logs # << >>
  /\ Head(logs).msg = "logAllExcluded"
  /\ Head(logs).count >= 2
  /\ Len(exclusions) > Head(logs).count
  /\ deletableItems = << >>
  /\ selectedItems = {}

\* the list without id
Without(list, id) == SelectSeq(list, LAMBDA x : x # id)

NoDuplicates(list) == \A id \in SeqToSet(list) : Occurrences(list, id) = 1

\* the effect of a step that logs the exclusion of one item
ExcludeIsImmediate ==
  Logged("logItemExcluded") =>
    LET id == Head(logs').item
    IN  /\ includes(deletableItems, id)
        /\ Occurrences(exclusions', id) = 1
        /\ ~includes(deletableItems', id)
        /\ id \notin selectedItems'
        /\ deletableItems' = Without(deletableItems, id)
        /\ selectedItems' = selectedItems \ {id}
        /\ Without(exclusions', id) = Without(exclusions, id)
        /\ UNCHANGED << isLoading, pc >>

\* C12: the exclusion list never holds an id twice, whatever sequence of
\* exclude, excludeAll and unexclude led to it; and a step that excludes one
\* item (handleExcludeItem) is no scan step, has the id in the exclusion list
\* exactly once and in neither the pool nor the selection, and leaves every
\* other pool entry, selection entry and exclusion entry as it was.
C12_ExcludeImmediateAndDuplicateSafe ==
  /\ [](NoDuplicates(exclusions))
  /\ [][ExcludeIsImmediate]_vars

\* an item that was excluded before and came back into the pool was excluded
\* again, with other entries still in the pool and in the selection
C12_Witness ==
  /\ logs # << >>
  /\ Head(logs).msg = "logItemExcluded"
  /\ \E n \in 2..Len(logs) : logs[n].msg = "logItemExcluded" /\ logs[n].item = Head(logs).item
  /\ Occurrences(exclusions, Head(logs).item) = 1
  /\ deletableItems # << >>
  /\ selectedItems # {}

\* a step of a scan or of a deletion run: a handler started, or an awaited
\* call of the handler in flight settled
OrchestratorStep == pc' # pc \/ (pc # "idle" /\ calls' # calls)

\* the step took one id off the exclusion list (unexclude)
Unexcluded == \E id \in SeqToSet(exclusions) : exclusions' = Without(exclusions, id)

ExclusionsWrittenByUserOnly ==
  /\ OrchestratorStep => exclusions' = exclusions
  /\ exclusions' # exclusions =>
        \/ Logged("logItemExcluded")
        \/ Logged("logAllExcluded")
        \/ (Unexcluded /\ pc = "idle" /\ pc' = "idle")

\* C13: no step of a scan or of a deletion run (its start, the return or the
\* throw of any of its calls, its completion marker, the re-scan it triggers)
\* changes the exclusion list, whatever the outcomes; every change of the
\* exclusion list is an exclude, an excludeAll or an unexclude of the user.
C13_RunNeverWritesExclusions ==
  [][ExclusionsWrittenByUserOnly]_vars

\* a run with a succeeded and a not succeeded item has ended and its re-scan
\* has finished, and the user excluded an item in between
C13_Witness ==
  /\ pc = "idle"
  /\ RunEnded
  /\ run.successCount >= 1
  /\ run.successCount < Len(Batch)
  /\ logs[1].msg = "logScanComplete"
  /\ exclusions # << >>
  /\ exclusions # scanExcl

\* ------------------------------------------------------------ movie match
\* the places of the fetched movie records whose tmdbId is the item's Tmdb id
\* (read as the code reads it, by parseInt)
MovieRecordsFor(id) ==
  IF Items[id].Tmdb = << >> THEN {}
  ELSE { n \in DOMAIN run.radarrMovies :
           StrictEq(run.radarrMovies[n].tmdbId, parseInt(Items[id].Tmdb)) }

\* the loop of the run is at or past place p of the batch
LoopReached(p) == run.idx >= 1 /\ p <= run.idx

FirstOf(places) == CHOOSE n \in places : \A m \in places : n <= m

MatchedMovieDeletedOnce ==
  \A p \in DOMAIN Batch :
    LET id == Batch[p]
        made == CallSeqFor(id, "deleteRadarrMovie")
    IN  /\ Len(made) <= 1
        /\ (Items[id].Type = "Movie" /\ LoopReached(p) /\ MovieRecordsFor(id) # {}) =>
              /\ Len(made) = 1
              /\ made[1].arg = run.radarrMovies[FirstOf(MovieRecordsFor(id))].id
              /\ made[1].result = "ok" =>
                    /\ OutcomeKeys(id) = {"logDeletionSuccessRadarr"}
                    /\ Cardinality(OutcomesOf(id)) = 1

\* the step in which a delete-movie call returns adds one to the success count
MovieSuccessCounted ==
  (pc = "deleteRadarrMovie" /\ Len(calls') >= Len(calls)
     /\ calls'[Len(calls)].result = "ok") =>
    run'.successCount = run.successCount + 1

\* C14: for a Movie item of the batch that the loop of the run has reached and
\* whose Tmdb id is the tmdbId of at least one fetched movie record, the run
\* has made exactly one delete-movie call, for the id of the first such record
\* in fetch order; when the call returned, the item's one outcome is Succeeded
\* and the step of the return added one to the success count.  No item ever
\* has two delete-movie calls.
C14_FirstMatchDeletedOnce ==
  /\ [](MatchedMovieDeletedOnce)
  /\ [][MovieSuccessCounted]_vars

\* a movie with two matching records was deleted by its one call and counted
C14_Witness ==
  \E p \in DOMAIN Batch :
    /\ Items[Batch[p]].Type = "Movie"
    /\ Cardinality(MovieRecordsFor(Batch[p])) >= 2
    /\ Len(CallSeqFor(Batch[p], "deleteRadarrMovie")) = 1
    /\ CallSeqFor(Batch[p], "deleteRadarrMovie")[1].result = "ok"
    /\ OutcomeKeys(Batch[p]) = {"logDeletionSuccessRadarr"}
    /\ run.successCount >= 1
    /\ RunEnded

\* -------------------------------------------------------------- thresholds
\* the configured number of days when the configuration supplies one
\* (0 included), the default otherwise
Supplied(x, dflt) == IF x = NoVal THEN dflt ELSE x

\* old enough for its kind, under the thresholds the configuration supplies
PastSuppliedRetention(id) ==
  \/ /\ Items[id].Type = "Movie"
     /\ Items[id].age > HalfDaysPerDay * Supplied(settings.movieRetentionDays,
                                                   DefaultMovieRetentionDays)
  \/ /\ Items[id].Type = "Season"
     /\ Items[id].age > HalfDaysPerDay * Supplied(settings.tvSeasonRetentionDays,
                                                   DefaultTvSeasonRetentionDays)

\* C15: the thresholds a scan applies are the configured ones whenever the
\* configuration supplies them, 0 included, and 7 and 28 days only when it
\* supplies none: a non-excluded entry is in the pool a scan produced iff it
\* is older than the supplied threshold of its kind.
C15_SuppliedThresholdsApplied ==
  ScanJustDone =>
    \A n \in DOMAIN library :
      ~includes(scanExcl, library[n]) =>
        (includes(deletableItems, library[n]) <=> PastSuppliedRetention(library[n]))

\* ----------------------------------------------------- order of the checks
\* the outcome of a Season under a configured series-manager when the checks
\* run in the order: parent series' Tvdb id, season number, series record;
\* "" when all three pass
SeasonCheckKey(id) ==
  IF ParentTvdb(id) = << >> THEN "logDeletionFailedTvdb"
  ELSE IF ~HasSeasonNumber(id) THEN "logDeletionFailedSeasonNumber"
  ELSE IF NoRecordFor(run.sonarrSeries, "tvdbId", ParentTvdb(id)) THEN "logDeletionInfoSonarrSeries"
  ELSE ""

\* C16: for a Season item of the batch that the loop of a run with a
\* configured series-manager has passed, the checks ran in the order Tvdb id
\* of the parent series, season number in the name, series record: the first
\* check that fails gives the item's one outcome and no episode list was
\* fetched for the item; in particular a name without digits gives
\* SkippedNoSeasonNumber whether or not a series record matches.
C16_SeasonChecksInOrder ==
  \A p \in DOMAIN Batch :
    LET id == Batch[p]
    IN  (Items[id].Type = "Season" /\ sonarrConfigured /\ run.idx >= 1 /\ Past(p)
           /\ SeasonCheckKey(id) # "") =>
          /\ OutcomeKeys(id) = {SeasonCheckKey(id)}
          /\ CallsFor(id, "getSonarrEpisodes") = {}

\* ---------------------------------------------------------- serialization
\* the scans and deletion runs in flight: the one of the mounted view, and
\* those of views that were unmounted while their handler was in flight
InFlight == (IF pc = "idle" THEN 0 ELSE 1) + detached

\* C17: in every reachable state at most one scan or deletion run is in
\* flight: no user action starts a scan or a deletion run before the one in
\* flight (the re-scan after a deletion included) has finished.
C17_RunsSerialized == InFlight <= 1

\* -------------------------------------------------------------- termination
\* the completion marker was logged and the follow-up scan has begun
MarkerLogged ==
  /\ pc = "getItems"
  /\ Len(logs) >= 2
  /\ logs[1].msg = "logScanStarted"
  /\ logs[2].msg = "logDeletionComplete"

\* C18: when every external call eventually returns or throws, a deletion run
\* in flight eventually logs its completion marker and begins the follow-up
\* scan, whether its calls return, throw per item or throw in the pre-fetch;
\* and whenever the loading flag is set (a scan, a run, the follow-up scan) it
\* is eventually cleared.
C18_NoRunHangs ==
  /\ (pc \in RunAwaits) ~> MarkerLogged
  /\ isLoading ~> ~isLoading

\* the follow-up scan of a run that ended by a thrown call has finished and
\* the loading flag is clear
C18_Witness ==
  /\ pc = "idle"
  /\ ~isLoading
  /\ RunEnded
  /\ RunLevelErrors # {}
  /\ \E n \in DOMAIN calls : calls[n].result = "threw"
  /\ logs[1].msg \in {"logScanComplete", "logError"}

\* ---------------------------------------------------------------- selection
SelectionInPool == selectedItems \subseteq SeqToSet(deletableItems)

\* the step in which a scan puts its result selects the whole pool
ScanSelectsAll ==
  (pc = "getItems" /\ pc' = "idle" /\ Len(logs') > Len(logs)
     /\ Head(logs').msg = "logScanComplete") =>
    selectedItems' = SeqToSet(deletableItems')

\* the step that confirms the deletion takes as its batch the selected
\* entries of the pool, in the pool's order
BatchIsSelection ==
  (isModalOpen /\ ~isModalOpen' /\ Len(logs') > Len(logs)) =>
    /\ run'.itemsToDelete = SelectSeq(deletableItems, LAMBDA id : id \in selectedItems)
    /\ SeqToSet(run'.itemsToDelete) = selectedItems
    /\ selectedItems # {}

\* C19: in every reachable state the selection is a subset of the ids of the
\* eligible pool, after any sequence of scan, toggle, exclude, excludeAll and
\* delete; the step in which a scan puts its result makes the selection the
\* whole pool; and the batch of a deletion run is the selection at its start,
\* so a subset of the pool.
C19_SelectionWithinPool ==
  /\ [](SelectionInPool)
  /\ [][ScanSelectsAll /\ BatchIsSelection]_vars

\* after a deletion run and its re-scan the user has changed the selection by
\* a toggle and the pool by an exclusion: the selection is a proper, non-empty
\* part of the pool
C19_Witness ==
  /\ pc = "idle"
  /\ RunEnded
  /\ selectedItems # {}
  /\ selectedItems # SeqToSet(deletableItems)
  /\ logs[1].msg = "logItemExcluded"

\* ------------------------------------------------- exclusions and the pool
\* C20: whenever no scan is in flight, no id is both in the eligible pool and
\* in the exclusion list (nor in the selection and in the exclusion list); so
\* an item the user excludes while a deletion run is in progress is not
\* brought back by the re-scan the run triggers at its end.
C20_PoolDisjointFromExclusions ==
  pc # "getItems" =>
    /\ \A n \in DOMAIN deletableItems : ~includes(exclusions, deletableItems[n])
    /\ \A id \in selectedItems : ~includes(exclusions, id)

\* ------------------------------------------------- deleting excluded items
DeleteOps == {"deleteRadarrMovie", "deleteSonarrEpisodeFile"}

\* the step issued a delete call: a new pending call is the last of calls
DeleteCallIssued ==
  /\ Len(calls') > Len(calls)
  /\ calls'[Len(calls')].op \in DeleteOps
  /\ calls'[Len(calls')].result = "pending"

\* C21: no delete call (delete-movie, delete-episode-file) is issued for an
\* item whose id is in the exclusion list at the moment of the call, also
\* when the user excluded the item after the run had started and before the
\* run reached it.
C21_NoDeleteCallForExcluded ==
  [][DeleteCallIssued => ~includes(exclusions, calls'[Len(calls')].item)]_vars

====
